---------------------------- MODULE Spec2Model ----------------------------
(***************************************************************************)
(* Model of python/flare/mykutils.py: for_each_call_to, find_instr,        *)
(* is_conformant_instr and is_conformant_operand, together with the IDA    *)
(* host primitives they call (idc.GetMnem, idc.GetOpType, idc.GetOpnd,     *)
(* idc.GetOperandValue, idaapi.next_head, idaapi.prev_head,                *)
(* idc.GetFunctionAttr, idautils.XrefsTo, idc.LocByName, idc.here).        *)
(*                                                                         *)
(* Python values that the code inspects with truthiness, `is None`,        *)
(* isinstance or == are tagged records [t, i, s]; text is a sequence of    *)
(* one-character strings so that `in` (substring) can be computed.         *)
(***************************************************************************)
EXTENDS Integers, Sequences, FiniteSets, TLC

VARIABLES
    insn,       \* host: address -> decoded instruction (its domain = the heads)
    runHi,      \* host: MaxAddr+1 .. runHi are further heads, all RunInsn
    func,       \* host: [start, end) of the function known to the database
    cursor,     \* host: idc.here()
    named,      \* host: idc.LocByName(ida_kernwin.get_highlighted_identifier())
    xrefs,      \* host: target address -> sequence of x.frm of XrefsTo(target)
    args,       \* the arguments of the call being executed
    pc,         \* position in the executing function
    va,         \* local `va`
    va_stop,    \* local `va_stop` of find_instr
    iterate,    \* local `iterate` of find_instr: "prev_head" or "next_head"
    max_instrs, \* local `max_instrs` of find_instr after the default is applied
    count,      \* iterations of the for loop of find_instr started so far
    visited,    \* history: the addresses returned by iterate(), in order
    tested,     \* history: number of is_conformant_instr calls made
    evaluated,  \* history: number of is_conformant_operand calls of the last check
    callsites,  \* for_each_call_to: the members of `callsites` not yet iterated
    called,     \* history: the arguments the callback was invoked with, in order
    result      \* outcome of the call: [kind, val]

vars == << insn, runHi, func, cursor, named, xrefs, args, pc, va, va_stop,
           iterate, max_instrs, count, visited, tested, evaluated, callsites,
           called, result >>

---------------------------------------------------------------------------
\* Bounds of the model.

\* Addresses 0 .. MaxAddr carry freely chosen instructions.
MaxAddr == 3

\* Length of the long run of instructions used to exhaust the default budget.
LongRun == 10001

\* Longest op_specs list and xref list drawn.
MaxSpecs == 2

MaxXrefs == 3

---------------------------------------------------------------------------
\* Program and host constants.

\* idc.BADADDR, the host's all-ones invalid address; it lies above every
\* address of the database (here the largest integer TLC represents).
BADADDR == 2147483647

\* The default search budget of find_instr.
DefaultMaxInstrs == 9999

\* idaapi.cvar.inf.maxEA: one past the last mapped address.
maxEA == MaxAddr + 1

---------------------------------------------------------------------------
\* Python values.

PyNone == [t |-> "none", i |-> 0, s |-> << >>]

PyInt(n) == [t |-> "int", i |-> n, s |-> << >>]

PyStr(str) == [t |-> "str", i |-> 0, s |-> str]

PyList(elems) == [t |-> "list", i |-> 0, s |-> elems]

\* bool(v): None, 0, '' and [] are false.
Truthy(v) ==
    CASE v.t = "none" -> FALSE
      [] v.t = "int"  -> v.i # 0
      [] OTHER        -> v.s # << >>

\* `needle in haystack` for two strings.
IsSubstring(needle, haystack) ==
    \E k \in 0 .. (Len(haystack) - Len(needle)) :
        SubSeq(haystack, k + 1, k + Len(needle)) = needle

\* `x in seq` for a list or tuple.
IsMember(x, seq) == \E k \in 1 .. Len(seq) : seq[k] = x

\* Text used by the model.
T_empty == << >>

T_call == << "c", "a", "l", "l" >>

T_mov == << "m", "o", "v" >>

T_lea == << "l", "e", "a" >>

T_eax == << "e", "a", "x" >>

T_eax_ecx4 == << "[", "e", "a", "x", "+", "e", "c", "x", "*", "4", "]" >>

T_ebx_ecx4 == << "[", "e", "b", "x", "+", "e", "c", "x", "*", "4", "]" >>

T_eax_ecx4_8 == << "[", "e", "a", "x", "+", "e", "c", "x", "*", "4", "+", "8", "]" >>

T_10h == << "1", "0", "h" >>

T_11h == << "1", "1", "h" >>

T_sub == << "s", "u", "b", "_", "1", "0" >>

---------------------------------------------------------------------------
\* The host database.

Operand(type, text, value) == [type |-> type, text |-> text, value |-> value]

\* An operand slot the instruction does not use (o_void).
OpVoid == Operand(0, T_empty, -1)

OpReg == Operand(1, T_eax, 0)

OpPhraseEax == Operand(3, T_eax_ecx4, 0)

OpPhraseEbx == Operand(3, T_ebx_ecx4, 3)

OpDispl == Operand(4, T_eax_ecx4_8, 8)

OpImm16 == Operand(5, T_10h, 16)

OpImm17 == Operand(5, T_11h, 17)

OpFar == Operand(6, T_sub, 16)

OpNear == Operand(7, T_sub, 16)

Operands == { OpVoid, OpReg, OpPhraseEax, OpPhraseEbx, OpDispl, OpImm16,
              OpImm17, OpFar, OpNear }

Instruction(mnem, ops) == [mnem |-> mnem, ops |-> ops]

I_call == Instruction(T_call, << OpNear >>)

I_mov == Instruction(T_mov, << OpReg, OpImm16 >>)

I_lea == Instruction(T_lea, << OpReg, OpPhraseEax >>)

\* The instruction filling the long run.
RunInsn == I_mov

\* Whether `ea` is the head of an instruction.
IsHead(ea) == ea \in DOMAIN insn \/ (ea > MaxAddr /\ ea <= runHi)

InsnAt(ea) == IF ea \in DOMAIN insn THEN insn[ea] ELSE RunInsn

\* idc.GetMnem(ea): '' where no instruction decodes.
GetMnem(ea) == IF IsHead(ea) THEN InsnAt(ea).mnem ELSE T_empty

\* idc.GetOpType(ea, n): -1 where no instruction decodes, o_void for an
\* operand slot the instruction does not use.
GetOpType(ea, n) ==
    IF ~IsHead(ea) THEN -1
    ELSE IF n + 1 \in DOMAIN InsnAt(ea).ops THEN InsnAt(ea).ops[n + 1].type
    ELSE 0

\* idc.GetOpnd(ea, n): the operand's text, '' if there is none.
GetOpnd(ea, n) ==
    IF IsHead(ea) /\ n + 1 \in DOMAIN InsnAt(ea).ops
    THEN InsnAt(ea).ops[n + 1].text
    ELSE T_empty

\* idc.GetOperandValue(ea, n): the operand's number, -1 if there is none.
GetOperandValue(ea, n) ==
    IF IsHead(ea) /\ n + 1 \in DOMAIN InsnAt(ea).ops
    THEN InsnAt(ea).ops[n + 1].value
    ELSE -1

---------------------------------------------------------------------------
\* is_conformant_operand (lines 168-213).  The verdict is "True", "False",
\* or the name of the exception raised.

OpSpec(pos, type, name) == [pos |-> pos, type |-> type, name |-> name]

\* Lines 182-184: the argument check.
OperandSpecRejected(spec) ==
    spec.pos.t = "none" \/ (~Truthy(spec.name) /\ ~Truthy(spec.type))

\* Lines 186-187: the operand type comparison.
OperandTypeDiffers(ea, spec) ==
    spec.type.t # "none" /\ PyInt(GetOpType(ea, spec.pos.i)) # spec.type

\* Variant of OperandNameVerdict that compares the text exactly for every
\* operand type (no substring matching, no numeric comparison).
OperandNameVerdictExact(ea, spec) ==
    IF spec.name.t = "none" THEN "True"
    ELSE IF PyStr(GetOpnd(ea, spec.pos.i)) # spec.name THEN "False"
    ELSE "True"

\* Lines 189-211: the representation comparison; "True" when it passes.
OperandNameVerdict(ea, spec) ==
    IF spec.name.t = "none" THEN "True"
    ELSE IF spec.type \in { PyInt(3), PyInt(4) }
    THEN IF spec.name.t # "str" THEN "TypeError"
         ELSE IF ~IsSubstring(spec.name.s, GetOpnd(ea, spec.pos.i)) THEN "False"
         ELSE "True"
    ELSE IF spec.type \in { PyInt(5), PyInt(6), PyInt(7) }
    THEN IF spec.name.t = "str"
         THEN IF PyStr(GetOpnd(ea, spec.pos.i)) # spec.name THEN "False" ELSE "True"
         ELSE IF PyInt(GetOperandValue(ea, spec.pos.i)) # spec.name THEN "False"
         ELSE "True"
    ELSE IF PyStr(GetOpnd(ea, spec.pos.i)) # spec.name THEN "False"
    ELSE "True"

is_conformant_operand(ea, spec) ==
    IF OperandSpecRejected(spec) THEN "ValueError"
    ELSE IF OperandTypeDiffers(ea, spec) THEN "False"
    ELSE OperandNameVerdict(ea, spec)

---------------------------------------------------------------------------
\* is_conformant_instr (lines 135-166).

\* Lines 162-166: the loop over op_specs from index k on; `evaluated` is the
\* number of is_conformant_operand calls made when the loop is left.
RECURSIVE OperandLoop(_, _, _)
OperandLoop(ea, op_specs, k) ==
    IF k > Len(op_specs) THEN [verdict |-> "True", evaluated |-> k - 1]
    ELSE LET r == is_conformant_operand(ea, op_specs[k])
         IN  IF r = "True" THEN OperandLoop(ea, op_specs, k + 1)
             ELSE [verdict |-> r, evaluated |-> k]

\* Variant of MnemonicDiffers without the isinstance test: `not in` is
\* applied to a mnemonic string too, where it is a substring test.
MnemonicDiffersSubstring(ea, mnems) ==
    /\ Truthy(mnems)
    /\ IF mnems.t = "str" THEN ~IsSubstring(GetMnem(ea), mnems.s)
       ELSE ~IsMember(GetMnem(ea), mnems.s)

\* Lines 153-160: the mnemonic filter rejects the instruction.
MnemonicDiffers(ea, mnems) ==
    /\ Truthy(mnems)
    /\ IF mnems.t = "str" THEN GetMnem(ea) # mnems.s
       ELSE ~IsMember(GetMnem(ea), mnems.s)

\* Variant of is_conformant_instr without the check of lines 149-151.
is_conformant_instr_unchecked(ea, mnems, op_specs) ==
    IF MnemonicDiffers(ea, mnems)
    THEN [verdict |-> "False", evaluated |-> 0]
    ELSE OperandLoop(ea, op_specs, 1)

is_conformant_instr(ea, mnems, op_specs) ==
    IF ~Truthy(mnems) /\ Len(op_specs) = 0
    THEN [verdict |-> "ValueError", evaluated |-> 0]
    ELSE IF MnemonicDiffers(ea, mnems)
    THEN [verdict |-> "False", evaluated |-> 0]
    ELSE OperandLoop(ea, op_specs, 1)

---------------------------------------------------------------------------
\* Host primitives used by find_instr.

SetMin(S) == CHOOSE x \in S : \A y \in S : x <= y

SetMax(S) == CHOOSE x \in S : \A y \in S : x >= y

\* idaapi.next_head(ea, maxea): the first head h with ea < h < maxea, else
\* BADADDR.
next_head(ea, maxea) ==
    LET low == { h \in DOMAIN insn : ea < h /\ h < maxea }
        first == IF ea + 1 > MaxAddr + 1 THEN ea + 1 ELSE MaxAddr + 1
    IN  IF low # {} THEN SetMin(low)
        ELSE IF first <= runHi /\ first < maxea THEN first
        ELSE BADADDR

\* idaapi.prev_head(ea, minea): the last head h with minea <= h < ea, else
\* BADADDR.
prev_head(ea, minea) ==
    LET low == { h \in DOMAIN insn : minea <= h /\ h < ea }
        last == IF ea - 1 < runHi THEN ea - 1 ELSE runHi
    IN  IF last > MaxAddr /\ last >= minea THEN last
        ELSE IF low # {} THEN SetMax(low)
        ELSE BADADDR

\* idc.GetFunctionAttr(ea, attr) for attr FUNCATTR_START ("start") or
\* FUNCATTR_END ("end"): BADADDR where ea is in no function.
GetFunctionAttr(ea, attr) ==
    IF func.start <= ea /\ ea < func.end THEN func[attr] ELSE BADADDR

---------------------------------------------------------------------------
\* find_instr (lines 72-133).

\* The names bound in the module's namespace (lines 6-12, 14-17 and the
\* module's own definitions); a bare name outside it that is no builtin
\* raises NameError when evaluated.
ModuleGlobals ==
    { "idc", "idaapi", "idautils", "ida_kernwin", "numbers", "namedtuple",
      "__author__", "__copyright__", "__license__", "__version__", "phex",
      "get_bitness", "for_each_call_to", "OpSpec", "find_instr",
      "is_conformant_instr", "is_conformant_operand" }

\* Line 105: the start address is rejected.
StartRejected(va_start) == Truthy(va_start) /\ va_start.t # "int"

\* Line 108: `va_start or here()`; the bare name `here` is looked up in the
\* module's namespace.
StartAddress(va_start) ==
    IF Truthy(va_start) THEN [kind |-> "int", val |-> va_start.i]
    ELSE IF "here" \in ModuleGlobals THEN [kind |-> "int", val |-> cursor]
    ELSE [kind |-> "NameError", val |-> 0]

\* Lines 110-111: the budget, 9999 when the argument is falsy.
SearchBudget(m) == IF m = 0 THEN DefaultMaxInstrs ELSE m

\* str.lower() on the direction words drawn by the model.
Lower(word) ==
    CASE word = "Next" -> "next"
      [] word = "UP"   -> "up"
      [] OTHER         -> word

UpWords == { "up", "back", "backward", "previous", "prev" }

DownWords == { "down", "forward", "next" }

\* Lines 113-122: the step primitive chosen, "" for an invalid direction.
StepPrimitive(direction) ==
    IF Lower(direction) \in UpWords THEN "prev_head"
    ELSE IF Lower(direction) \in DownWords THEN "next_head"
    ELSE ""

\* Variant of StopAddress that ignores the function's bounds.
StopAddressUnbounded(step, ea) == IF step = "prev_head" THEN 0 ELSE BADADDR

\* Lines 115-117 and 120: the bound handed to the step primitive.
StopAddress(step, ea) ==
    IF step = "prev_head"
    THEN IF GetFunctionAttr(ea, "start") = BADADDR THEN 0
         ELSE GetFunctionAttr(ea, "start")
    ELSE GetFunctionAttr(ea, "end")

\* Line 125: iterate(va, va_stop).
Step(step, ea, stop) ==
    IF step = "prev_head" THEN prev_head(ea, stop) ELSE next_head(ea, stop)

\* Line 130: the address ends the walk.
IsSentinel(ea) == ea \in { 0, BADADDR }

\* Variant of LoopContinues that is off by one.
LoopContinuesInclusive(done, budget) == done <= budget

\* Line 124: xrange(max_instrs) yields another iteration.
LoopContinues(done, budget) == done < budget

Outcome(kind, val) == [kind |-> kind, val |-> val]

Pending == Outcome("pending", 0)

\* The variables of a call that has not begun.
LocalsInit ==
    /\ va = 0
    /\ va_stop = 0
    /\ iterate = ""
    /\ max_instrs = 0
    /\ count = 0
    /\ visited = << >>
    /\ tested = 0
    /\ evaluated = 0
    /\ callsites = {}
    /\ called = << >>
    /\ result = Pending

\* Lines 105-122: argument checks and the set-up of the walk.
FindEnter ==
    /\ pc = "find_instr"
    /\ UNCHANGED << insn, runHi, func, cursor, named, xrefs, args, count,
                    visited, tested, evaluated, callsites, called >>
    /\ IF StartRejected(args.va_start)
       THEN /\ result' = Outcome("ValueError", 0)
            /\ pc' = "done"
            /\ UNCHANGED << va, va_stop, iterate, max_instrs >>
       ELSE IF StartAddress(args.va_start).kind # "int"
       THEN /\ result' = Outcome(StartAddress(args.va_start).kind, 0)
            /\ pc' = "done"
            /\ UNCHANGED << va, va_stop, iterate, max_instrs >>
       ELSE IF StepPrimitive(args.direction) = ""
       THEN /\ result' = Outcome("ValueError", 0)
            /\ pc' = "done"
            /\ va' = StartAddress(args.va_start).val
            /\ max_instrs' = SearchBudget(args.max_instrs)
            /\ UNCHANGED << va_stop, iterate >>
       ELSE /\ va' = StartAddress(args.va_start).val
            /\ max_instrs' = SearchBudget(args.max_instrs)
            /\ iterate' = StepPrimitive(args.direction)
            /\ va_stop' = StopAddress(iterate', va')
            /\ IF LoopContinues(0, max_instrs')
               THEN pc' = "loop" /\ result' = Pending
               ELSE pc' = "done" /\ result' = Outcome("None", 0)

\* Variant of FindStep that tests the current address before stepping, so
\* that the start address itself is tested.
FindStepTestsBeforeStepping ==
    /\ pc = "loop"
    /\ UNCHANGED << insn, runHi, func, cursor, named, xrefs, args, va_stop,
                    iterate, max_instrs, callsites, called >>
    /\ count' = count + 1
    /\ tested' = tested + 1
    /\ LET r == is_conformant_instr(va, args.mnems, args.op_specs)
       IN  /\ evaluated' = r.evaluated
           /\ IF r.verdict = "True"
              THEN /\ pc' = "done" /\ result' = Outcome("addr", va)
                   /\ UNCHANGED << va, visited >>
              ELSE IF r.verdict # "False"
              THEN /\ pc' = "done" /\ result' = Outcome(r.verdict, 0)
                   /\ UNCHANGED << va, visited >>
              ELSE /\ va' = Step(iterate, va, va_stop)
                   /\ visited' = Append(visited, va')
                   /\ IF IsSentinel(va') \/ ~LoopContinues(count', max_instrs)
                      THEN pc' = "done" /\ result' = Outcome("None", 0)
                      ELSE pc' = "loop" /\ result' = Pending

\* Lines 124-133: one iteration of the for loop, and the return after it.
FindStep ==
    /\ pc = "loop"
    /\ UNCHANGED << insn, runHi, func, cursor, named, xrefs, args, va_stop,
                    iterate, max_instrs, callsites, called >>
    /\ va' = Step(iterate, va, va_stop)
    /\ visited' = Append(visited, va')
    /\ count' = count + 1
    /\ tested' = tested + 1
    /\ LET r == is_conformant_instr(va', args.mnems, args.op_specs)
       IN  /\ evaluated' = r.evaluated
           /\ IF r.verdict = "True"
              THEN pc' = "done" /\ result' = Outcome("addr", va')
              ELSE IF r.verdict # "False"
              THEN pc' = "done" /\ result' = Outcome(r.verdict, 0)
              ELSE IF IsSentinel(va') \/ ~LoopContinues(count', max_instrs)
              THEN pc' = "done" /\ result' = Outcome("None", 0)
              ELSE pc' = "loop" /\ result' = Pending

---------------------------------------------------------------------------
\* for_each_call_to (lines 50-68).

\* Lines 56-62: the target address.
CallTarget(arg) ==
    IF ~Truthy(arg)
    THEN IF named >= maxEA \/ named = 0 THEN cursor ELSE named
    ELSE arg.i

\* idautils.XrefsTo(ea): the x.frm of each record, in the host's order.
XrefsTo(ea) == IF ea \in DOMAIN xrefs THEN xrefs[ea] ELSE << >>

\* Variant of CallSites without the mnemonic filter.
CallSitesAnyMnemonic(ea) ==
    { XrefsTo(ea)[k] : k \in 1 .. Len(XrefsTo(ea)) }

\* Lines 65-66: the set built from the xrefs whose source is a call.
CallSites(ea) ==
    { XrefsTo(ea)[k] : k \in { j \in 1 .. Len(XrefsTo(ea)) :
                                 GetMnem(XrefsTo(ea)[j]) = T_call } }

\* Lines 56-66: resolve the target and collect the call sites.
ForEachEnter ==
    /\ pc = "for_each_call_to"
    /\ va' = CallTarget(args.va)
    /\ callsites' = CallSites(va')
    /\ pc' = IF callsites' = {} THEN "done" ELSE "callbacks"
    /\ result' = IF callsites' = {} THEN Outcome("None", 0) ELSE Pending
    /\ UNCHANGED << insn, runHi, func, cursor, named, xrefs, args, va_stop,
                    iterate, max_instrs, count, visited, tested, evaluated,
                    called >>

\* Lines 67-68: one iteration of `for va in callsites`; a set is iterated
\* in an order the code does not choose.
ForEachCallback ==
    /\ pc = "callbacks"
    /\ \E site \in callsites :
          /\ va' = site
          /\ called' = Append(called, site)
          /\ callsites' = callsites \ { site }
    /\ pc' = IF callsites' = {} THEN "done" ELSE "callbacks"
    /\ result' = IF callsites' = {} THEN Outcome("None", 0) ELSE Pending
    /\ UNCHANGED << insn, runHi, func, cursor, named, xrefs, args, va_stop,
                    iterate, max_instrs, count, visited, tested, evaluated >>

---------------------------------------------------------------------------
\* Direct calls of the two conformance checks.

\* is_conformant_instr(va, mnems, op_specs) called on its own.
CheckInstr ==
    /\ pc = "is_conformant_instr"
    /\ LET r == is_conformant_instr(args.va, args.mnems, args.op_specs)
       IN  /\ result' = Outcome(r.verdict, 0)
           /\ evaluated' = r.evaluated
    /\ tested' = tested + 1
    /\ pc' = "done"
    /\ UNCHANGED << insn, runHi, func, cursor, named, xrefs, args, va, va_stop,
                    iterate, max_instrs, count, visited, callsites, called >>

\* is_conformant_operand(va, op_spec) called on its own.
CheckOperand ==
    /\ pc = "is_conformant_operand"
    /\ result' = Outcome(is_conformant_operand(args.va, args.op_spec), 0)
    /\ evaluated' = evaluated + 1
    /\ pc' = "done"
    /\ UNCHANGED << insn, runHi, func, cursor, named, xrefs, args, va, va_stop,
                    iterate, max_instrs, count, visited, tested, callsites,
                    called >>

---------------------------------------------------------------------------
\* Inputs drawn by the model.

Addr == 0 .. MaxAddr

\* Operand positions, type codes and names a caller may pass.
SpecPositions == { PyNone, PyInt(0), PyInt(1) }

SpecTypes == { PyNone } \cup { PyInt(n) : n \in { -1, 0, 1, 3, 4, 5, 6, 7 } }

SpecNames ==
    { PyNone, PyInt(0), PyInt(16), PyInt(17), PyStr(T_empty), PyStr(T_eax),
      PyStr(T_eax_ecx4), PyStr(T_10h), PyStr(T_sub) }

AllOpSpecs ==
    { OpSpec(p, t, n) : p \in SpecPositions, t \in SpecTypes, n \in SpecNames }

\* The operand specs used in op_specs lists.
ListedOpSpecs ==
    { OpSpec(PyInt(0), PyInt(1), PyStr(T_eax)),
      OpSpec(PyInt(1), PyInt(5), PyInt(16)),
      OpSpec(PyInt(1), PyInt(5), PyInt(17)),
      OpSpec(PyInt(1), PyInt(3), PyStr(T_eax)),
      OpSpec(PyInt(1), PyNone, PyStr(T_10h)),
      OpSpec(PyInt(1), PyInt(0), PyNone),
      OpSpec(PyNone, PyInt(5), PyInt(16)),
      OpSpec(PyInt(1), PyInt(3), PyInt(16)) }

SeqsUpTo(S, n) == UNION { [1 .. k -> S] : k \in 0 .. n }

MnemFilters ==
    { PyNone, PyStr(T_empty), PyList(<< >>), PyStr(T_mov), PyStr(T_call),
      PyList(<< T_call, T_mov >>), PyList(<< T_lea >>) }

\* One instruction at address 0, or none.
OneInsnHosts(S) == { << >> } \cup { [a \in { 0 } |-> x] : x \in S }

OperandHosts ==
    OneInsnHosts({ Instruction(T_mov, << x >>) : x \in Operands }
                 \cup { Instruction(T_mov, << OpReg, x >>) : x \in Operands })

\* Every layout of instructions over a set of addresses.
Layouts(A, S) == UNION { [H -> S] : H \in SUBSET A }

\* (mnems, op_specs) pairs passed to find_instr.
FindFilters ==
    { [mnems |-> PyNone, op_specs |-> << >>],
      [mnems |-> PyStr(T_mov), op_specs |-> << >>],
      [mnems |-> PyList(<< T_call, T_empty >>), op_specs |-> << >>],
      [mnems |-> PyNone, op_specs |-> << OpSpec(PyInt(1), PyInt(5), PyInt(16)) >>],
      [mnems |-> PyNone, op_specs |-> << OpSpec(PyInt(0), PyInt(-1), PyNone) >>],
      [mnems |-> PyStr(T_call), op_specs |-> << OpSpec(PyInt(1), PyInt(0), PyNone) >>] }

FindStarts ==
    { PyNone, PyStr(<< "x" >>) } \cup { PyInt(a) : a \in Addr }

FindDirections == { "up", "Next", "sideways" }

FindBudgets == { -1, 0, 1, 2 }

FindArgs(start, dir, f, m) ==
    [va_start |-> start, direction |-> dir, mnems |-> f.mnems,
     op_specs |-> f.op_specs, max_instrs |-> m]

HostIdle == cursor = 2 /\ named = BADADDR /\ xrefs = << >>

---------------------------------------------------------------------------
\* Specifications.

\* is_conformant_operand on every drawn spec and operand.
InitOperand ==
    /\ insn \in OperandHosts
    /\ runHi = 0
    /\ func = [start |-> 0, end |-> maxEA]
    /\ HostIdle
    /\ args \in { [va |-> 0, op_spec |-> x] : x \in AllOpSpecs }
    /\ pc = "is_conformant_operand"
    /\ LocalsInit

NextOperand == CheckOperand

SpecOperand == InitOperand /\ [][NextOperand]_vars

\* is_conformant_instr on every drawn filter and instruction.
InitInstr ==
    /\ insn \in OneInsnHosts({ I_call, I_mov, I_lea })
    /\ runHi = 0
    /\ func = [start |-> 0, end |-> maxEA]
    /\ HostIdle
    /\ args \in { [va |-> 0, mnems |-> m, op_specs |-> x] :
                    m \in MnemFilters, x \in SeqsUpTo(ListedOpSpecs, MaxSpecs) }
    /\ pc = "is_conformant_instr"
    /\ LocalsInit

NextInstr == CheckInstr

SpecInstr == InitInstr /\ [][NextInstr]_vars

\* find_instr over every small layout, and over one long run of instructions.
InitFindSmall ==
    /\ insn \in Layouts(Addr, { I_call, I_mov })
    /\ runHi = 0
    /\ func \in { [start |-> 0, end |-> maxEA], [start |-> 1, end |-> MaxAddr] }
    /\ args \in { FindArgs(s, d, f, m) : s \in FindStarts, d \in FindDirections,
                                         f \in FindFilters, m \in FindBudgets }

InitFindLong ==
    /\ insn = [a \in Addr |-> I_mov]
    /\ runHi = MaxAddr + LongRun
    /\ func = [start |-> 0, end |-> runHi + 1]
    /\ args \in { FindArgs(PyInt(MaxAddr), "Next", f, 0) : f \in FindFilters }
                \cup { FindArgs(PyInt(runHi), "up", f, 0) : f \in FindFilters }

InitFind ==
    /\ InitFindSmall \/ InitFindLong
    /\ HostIdle
    /\ pc = "find_instr"
    /\ LocalsInit

NextFind == FindEnter \/ FindStep

SpecFind == InitFind /\ [][NextFind]_vars

\* for_each_call_to over every drawn xref list.
InitCalls ==
    /\ insn \in [Addr -> { I_call, I_mov }]
    /\ runHi = 0
    /\ func = [start |-> 0, end |-> maxEA]
    /\ cursor = 2
    /\ named \in { 1, BADADDR }
    /\ xrefs \in { [t \in { 1 } |-> x] : x \in SeqsUpTo(Addr, MaxXrefs) }
    /\ args \in { [va |-> x] : x \in { PyNone, PyInt(0), PyInt(1), PyInt(2) } }
    /\ pc = "for_each_call_to"
    /\ LocalsInit

NextCalls == ForEachEnter \/ ForEachCallback

SpecCalls == InitCalls /\ [][NextCalls]_vars

\* Every operation.
Init == InitOperand \/ InitInstr \/ InitFind \/ InitCalls

Next == CheckOperand \/ CheckInstr \/ FindEnter \/ FindStep
        \/ ForEachEnter \/ ForEachCallback

Spec == Init /\ [][Next]_vars

---------------------------------------------------------------------------
\* Properties of find_instr, checked under SpecFind.

\* The verdict of the caller's filter at an address.
Verdict(ea) == is_conformant_instr(ea, args.mnems, args.op_specs).verdict

\* find_instr raised.
Raised == result.kind \in { "ValueError", "NameError", "TypeError" }

\* The walk: each element of `visited` is one step from the one before it,
\* the first one step from the start address.
IsWalkFrom(start) ==
    \A k \in 1 .. Len(visited) :
        visited[k] = Step(iterate, IF k = 1 THEN start ELSE visited[k - 1], va_stop)

\* C1: an address returned by find_instr is the last address of the walk
\* stepped from the start address (which is itself never tested), it is
\* conformant under is_conformant_instr and every address stepped to before
\* it was nonconformant; a walk that ends with no conformant address
\* returns None.
C1_FirstConforming ==
    pc = "done" =>
        /\ result.kind = "addr" =>
              /\ visited # << >>
              /\ result.val = visited[Len(visited)]
              /\ IsWalkFrom(args.va_start.i)
              /\ tested = Len(visited)
              /\ Verdict(result.val) = "True"
              /\ \A k \in 1 .. Len(visited) - 1 : Verdict(visited[k]) = "False"
        /\ result.kind = "None" =>
              \A k \in 1 .. Len(visited) : Verdict(visited[k]) = "False"
        /\ (~Raised /\ \A k \in 1 .. Len(visited) : Verdict(visited[k]) # "True")
              => result.kind = "None"

\* C1 witness: a match returned after an earlier nonconformant instruction
\* was stepped over.
C1_Witness ==
    /\ pc = "done"
    /\ result.kind = "addr"
    /\ Len(visited) = 2
    /\ Verdict(visited[1]) = "False"
    /\ Verdict(args.va_start.i) = "True"

\* The budget the caller asked for.
RequestedBudget ==
    IF args.max_instrs = 0 THEN DefaultMaxInstrs ELSE args.max_instrs

\* C2: find_instr makes at most max_instrs step calls and conformance
\* evaluations (at most 9999 when max_instrs is zero); with max_instrs = 1
\* and a nonconforming first instruction it visits exactly that one
\* instruction and returns None.
C2_Budget ==
    /\ args.max_instrs >= 0 =>
          /\ Len(visited) <= RequestedBudget
          /\ tested <= RequestedBudget
    /\ ( /\ pc = "done"
         /\ args.max_instrs = 1
         /\ ~Raised
         /\ visited # << >>
         /\ Verdict(visited[1]) = "False" )
          => (Len(visited) = 1 /\ tested = 1 /\ result.kind = "None")

\* C2 witness: with max_instrs = 1 the scan gave up after one nonconforming
\* instruction although the walk could have gone on.
C2_Witness ==
    /\ pc = "done"
    /\ args.max_instrs = 1
    /\ Len(visited) = 1
    /\ tested = 1
    /\ result.kind = "None"
    /\ ~IsSentinel(va)
    /\ Step(iterate, va, va_stop) # BADADDR

\* The default budget of 9999 ran out in the middle of the long run of
\* nonconforming instructions (the last state of each long walk).
C2_DefaultBudgetSpent ==
    /\ pc = "done"
    /\ args.max_instrs = 0
    /\ Len(visited) = DefaultMaxInstrs
    /\ result.kind = "None"
    /\ ~IsSentinel(va)
    /\ Step(iterate, va, va_stop) # BADADDR

\* The start address lies inside the function.
StartInFunction ==
    /\ args.va_start.t = "int"
    /\ func.start <= args.va_start.i
    /\ args.va_start.i < func.end

\* C3: when the start address lies inside a function, every address
\* stepped to other than BADADDR is at or above the function's start on an
\* upward walk and below the function's end on a downward walk, and the
\* bound handed to every step is that start (or end).  Every state of a walk
\* is checked, so the last step taken stands for all of them.
C3_StaysInFunction ==
    (StartInFunction /\ visited # << >>) =>
        LET n == Len(visited)
            from == IF n = 1 THEN args.va_start.i ELSE visited[n - 1]
        IN  /\ iterate = "prev_head" =>
                  /\ va_stop = func.start
                  /\ visited[n] = prev_head(from, func.start)
                  /\ visited[n] # BADADDR => visited[n] >= func.start
            /\ iterate = "next_head" =>
                  /\ va_stop = func.end
                  /\ visited[n] = next_head(from, func.end)
                  /\ visited[n] # BADADDR => visited[n] < func.end

\* C3 witness: an upward walk reached the function's start and the next
\* step was refused although an instruction lies below the function.
C3_Witness ==
    /\ StartInFunction
    /\ iterate = "prev_head"
    /\ func.start = 1
    /\ 0 \in DOMAIN insn
    /\ Len(visited) = 2
    /\ visited[1] = func.start
    /\ visited[2] = BADADDR

\* C4: once a step yields 0 or BADADDR the scan ends at once with None, so
\* neither is ever returned as a match.
C4_SentinelEndsScan ==
    (visited # << >> /\ IsSentinel(visited[Len(visited)])
        /\ result.kind \notin { "ValueError", "TypeError" })
        => (pc = "done" /\ result.kind = "None")

---------------------------------------------------------------------------
\* Properties of for_each_call_to, checked under SpecCalls.

\* How often the callback was invoked with `ea`.
TimesCalled(ea) == Cardinality({ k \in 1 .. Len(called) : called[k] = ea })

\* `ea` is the source of some xref to the target and holds a call.
IsCallSource(ea) ==
    \E k \in 1 .. Len(XrefsTo(CallTarget(args.va))) :
        /\ XrefsTo(CallTarget(args.va))[k] = ea
        /\ GetMnem(ea) = T_call

\* C5: the callback is invoked exactly once for each distinct xref source
\* that is a call, and for no other address.
C5_OncePerCallSite ==
    /\ \A k \in 1 .. Len(called) :
          IsCallSource(called[k]) /\ TimesCalled(called[k]) = 1
    /\ pc = "done" => \A ea \in Addr : IsCallSource(ea) => TimesCalled(ea) = 1

\* C5 witness: one call site reported by two xref records and one xref from
\* an instruction that is no call; the callback ran once.
C5_Witness ==
    /\ pc = "done"
    /\ Len(called) = 1
    /\ \E j, k, m \in 1 .. Len(XrefsTo(CallTarget(args.va))) :
          LET x == XrefsTo(CallTarget(args.va))
          IN  j # k /\ x[j] = x[k] /\ x[j] = called[1] /\ GetMnem(x[m]) # T_call

---------------------------------------------------------------------------
\* Properties of is_conformant_instr, checked under SpecInstr.

\* is_conformant_operand gives a verdict on the spec (it raises nothing).
WellFormedAt(ea, spec) == is_conformant_operand(ea, spec) \in { "True", "False" }

\* The mnemonic at `ea` is the mnemonic string or one of the collection.
MnemonicListed(ea, mnems) ==
    IF mnems.t = "str" THEN GetMnem(ea) = mnems.s
    ELSE \E k \in 1 .. Len(mnems.s) : mnems.s[k] = GetMnem(ea)

\* The index of the first operand spec that is not conformant, 0 if none.
FirstFailing(ea, op_specs) ==
    LET failing == { k \in 1 .. Len(op_specs) :
                       is_conformant_operand(ea, op_specs[k]) # "True" }
    IN  IF failing = {} THEN 0 ELSE SetMin(failing)

\* C6: with a filter given and only well-formed operand specs,
\* is_conformant_instr returns True exactly when the mnemonic filter is
\* empty or lists the instruction's mnemonic and every operand spec is
\* conformant, and False otherwise; no operand spec after the first
\* failing one is evaluated.
C6_InstrConformance ==
    ( /\ pc = "done"
      /\ Truthy(args.mnems) \/ args.op_specs # << >>
      /\ \A k \in 1 .. Len(args.op_specs) : WellFormedAt(args.va, args.op_specs[k]) )
    => LET mnemOK == ~Truthy(args.mnems) \/ MnemonicListed(args.va, args.mnems)
           fail == FirstFailing(args.va, args.op_specs)
       IN  /\ result.kind = IF mnemOK /\ fail = 0 THEN "True" ELSE "False"
           /\ evaluated = IF ~mnemOK THEN 0
                          ELSE IF fail = 0 THEN Len(args.op_specs)
                          ELSE fail

\* C6 witness: the mnemonic matched, the first of two operand specs failed
\* and the second was not evaluated.
C6_Witness ==
    /\ pc = "done"
    /\ Truthy(args.mnems)
    /\ MnemonicListed(args.va, args.mnems)
    /\ Len(args.op_specs) = 2
    /\ \A k \in 1 .. 2 : WellFormedAt(args.va, args.op_specs[k])
    /\ is_conformant_operand(args.va, args.op_specs[2]) = "True"
    /\ result.kind = "False"
    /\ evaluated = 1

---------------------------------------------------------------------------
\* Properties of is_conformant_operand, checked under SpecOperand.

\* C7: is_conformant_operand raises ValueError exactly when the spec has no
\* position or has neither a type nor a name; every other spec (type code
\* 0, name 0 and the empty name included) gets a True/False verdict.
C7_RejectsOnlyUnderSpecified ==
    pc = "done" =>
        LET s == args.op_spec
            underSpecified == s.pos.t = "none" \/ (s.type.t = "none" /\ s.name.t = "none")
        IN  /\ result.kind = "ValueError" <=> underSpecified
            /\ ~underSpecified => result.kind \in { "True", "False" }

\* The name comparison the operand type selects succeeds.
NameMatches(ea, s) ==
    IF s.type.i \in { 3, 4 }
    THEN s.name.t = "str" /\ IsSubstring(s.name.s, GetOpnd(ea, s.pos.i))
    ELSE IF s.type.i \in { 5, 6, 7 }
    THEN IF s.name.t = "str" THEN GetOpnd(ea, s.pos.i) = s.name.s
         ELSE GetOperandValue(ea, s.pos.i) = s.name.i
    ELSE s.name.t = "str" /\ GetOpnd(ea, s.pos.i) = s.name.s

\* The examples: (1, 5, 16) against immediate 16 and 17, (0, 3, "eax")
\* against "[eax+ecx*4]" and "[ebx+ecx*4]".
ExampleVerdict ==
    LET s == args.op_spec
        ops == insn[0].ops
    IN  IF s = OpSpec(PyInt(1), PyInt(5), PyInt(16)) /\ ops = << OpReg, OpImm16 >>
        THEN "True"
        ELSE IF s = OpSpec(PyInt(1), PyInt(5), PyInt(16)) /\ ops = << OpReg, OpImm17 >>
        THEN "False"
        ELSE IF s = OpSpec(PyInt(0), PyInt(3), PyStr(T_eax)) /\ ops = << OpPhraseEax >>
        THEN "True"
        ELSE IF s = OpSpec(PyInt(0), PyInt(3), PyStr(T_eax)) /\ ops = << OpPhraseEbx >>
        THEN "False"
        ELSE ""

\* C8: for a spec with position, type and name that passes the argument
\* check, is_conformant_operand returns True exactly when the host's operand
\* type equals the type and the name comparison selected by the type
\* succeeds (substring of the text for types 3 and 4; for types 5, 6 and 7
\* the text for a text name, else the numeric value; the text otherwise).
C8_OperandConformance ==
    ( /\ pc = "done"
      /\ args.op_spec.pos.t = "int"
      /\ args.op_spec.type.t = "int"
      /\ args.op_spec.name.t # "none"
      /\ ~OperandSpecRejected(args.op_spec) )
    => /\ result.kind = "True" <=>
              /\ GetOpType(args.va, args.op_spec.pos.i) = args.op_spec.type.i
              /\ NameMatches(args.va, args.op_spec)
       /\ (0 \in DOMAIN insn /\ ExampleVerdict # "") => result.kind = ExampleVerdict

\* C8 witness: (0, 3, "eax") was found conformant to "[eax+ecx*4]".
C8_Witness ==
    /\ pc = "done"
    /\ 0 \in DOMAIN insn
    /\ insn[0].ops = << OpPhraseEax >>
    /\ args.op_spec = OpSpec(PyInt(0), PyInt(3), PyStr(T_eax))
    /\ result.kind = "True"

---------------------------------------------------------------------------
\* Property of both conformance entry points, checked under Spec.

\* The call is one that reaches a conformance evaluation with no filter:
\* is_conformant_instr itself, or find_instr with an integer start address,
\* a recognized direction and a non-negative budget.
NoFilterCall ==
    /\ "mnems" \in DOMAIN args
    /\ ~Truthy(args.mnems)
    /\ args.op_specs = << >>
    /\ "direction" \in DOMAIN args =>
          /\ Truthy(args.va_start)
          /\ args.va_start.t = "int"
          /\ StepPrimitive(args.direction) # ""
          /\ args.max_instrs >= 0

\* C9: a conformance evaluation given neither mnemonics nor operand specs
\* raises ValueError: is_conformant_instr at every address, and find_instr
\* instead of returning an address or None.
C9_NoFilterRaises ==
    (pc = "done" /\ NoFilterCall) => result.kind = "ValueError"

\* C9 witness: find_instr stepped to an instruction and raised ValueError
\* there.
C9_Witness ==
    /\ pc = "done"
    /\ NoFilterCall
    /\ "direction" \in DOMAIN args
    /\ Len(visited) = 1
    /\ IsHead(visited[1])
    /\ result.kind = "ValueError"

=============================================================================
